---- MODULE Spec2Model ----
(***************************************************************************)
(* Model of src/app.py: a Flask site with one admin account, a posts       *)
(* table and a users table kept in SQLite or Postgres.                     *)
(*                                                                         *)
(* Strings are sequences of one-character strings, so that str.strip()     *)
(* and len() are computed and not assumed.                                 *)
(***************************************************************************)
EXTENDS Integers, Sequences, FiniteSets, TLC

(***************************************************************************)
(* Bounds of the model.                                                    *)
(***************************************************************************)
\* posts ever inserted (the AUTOINCREMENT / SERIAL counter stops here)
MaxPosts == 2
\* rows of the posts tables GET / is applied to
MaxDigestRows == 13

Clients == {"c1", "c2"}
Workers == {"w1", "w2"}
Salts == {"s1", "s2"}
\* what datetime.now().isoformat() returns when a post is created by a request
Now == 0

(***************************************************************************)
(* Strings.                                                                *)
(***************************************************************************)
Whitespace == {" "}

RECURSIVE LStrip(_)
LStrip(s) ==
  IF s # <<>> /\ Head(s) \in Whitespace THEN LStrip(Tail(s)) ELSE s

RECURSIVE RStrip(_)
RStrip(s) ==
  IF s # <<>> /\ s[Len(s)] \in Whitespace
  THEN RStrip(SubSeq(s, 1, Len(s) - 1))
  ELSE s

\* str.strip()
Strip(s) == RStrip(LStrip(s))

Rep(ch, n) == [i \in 1..n |-> ch]

Digits == <<"0", "1", "2", "3", "4", "5", "6", "7", "8", "9">>

DigitVal(ch) == (CHOOSE i \in 1..10 : Digits[i] = ch) - 1

\* text the database engines read as an integer literal
IsIntegerText(s) ==
  /\ s # <<>>
  /\ \A i \in 1..Len(s) : \E d \in 1..10 : Digits[d] = s[i]

RECURSIVE ParseInt(_)
ParseInt(s) ==
  IF s = <<>> THEN 0
  ELSE 10 * ParseInt(SubSeq(s, 1, Len(s) - 1)) + DigitVal(s[Len(s)])

\* the decimal text of a small id
IntText(n) ==
  IF n < 10 THEN <<Digits[n + 1]>>
  ELSE <<Digits[(n \div 10) + 1], Digits[(n % 10) + 1]>>

(***************************************************************************)
(* Program constants.                                                      *)
(***************************************************************************)
Jobs == <<"j", "o", "b", "s">>
Results == <<"r", "e", "s", "u", "l", "t", "s">>
Schemes == <<"s", "c", "h", "e", "m", "e", "s">>
ExamCutoffs == <<"e", "x", "a", "m", "_", "c", "u", "t", "o", "f", "f", "s">>
CurrentAffairs ==
  <<"c", "u", "r", "r", "e", "n", "t", "_", "a", "f", "f", "a", "i", "r", "s">>

CATEGORIES ==
  << [key |-> Jobs, label |-> "Jobs"],
     [key |-> Results, label |-> "Results"],
     [key |-> Schemes, label |-> "Schemes"],
     [key |-> ExamCutoffs, label |-> "Exam Cutoffs"],
     [key |-> CurrentAffairs, label |-> "Current Affairs"] >>

\* [c[0] for c in CATEGORIES]
CategoryKeys == {CATEGORIES[i].key : i \in DOMAIN CATEGORIES}

AdminName == <<"a", "d", "m", "i", "n">>

\* os.environ.get("ADMIN_PASSWORD", "Admin@12345") with the variable unset
DefaultPass == <<"A", "d", "m", "i", "n", "@", "1", "2", "3", "4", "5">>

MinPasswordLen == 8
HomeLimit == 12
BlockLimit == 4
RelatedLimit == 6

(***************************************************************************)
(* werkzeug.security: a salted one-way hash.  The digest is an injective   *)
(* function of the salt and the password; it is only ever compared.        *)
(***************************************************************************)
GeneratePasswordHash(password, salt) ==
  [salt |-> salt, digest |-> <<salt, password>>]

CheckPasswordHash(pwhash, password) ==
  pwhash.digest = <<pwhash.salt, password>>

(***************************************************************************)
(* State.                                                                  *)
(***************************************************************************)
VARIABLES
  use_postgres,  \* USE_POSTGRES, fixed when the module is loaded
  tables,        \* the tables that exist in the shared database
  users,         \* committed rows of users
  posts,         \* committed rows of posts
  post_seq,      \* last id the posts id sequence handed out
  session,       \* per client: session.get("user"), <<>> when absent
  pc,            \* per worker process: its position in init_db
  local,         \* per worker: init_db's local state
  resp,          \* the response to the last request
  inflight       \* per client: an /admin update_password request in progress

vars ==
  <<use_postgres, tables, users, posts, post_seq, session, pc, local, resp,
    inflight>>

NoUser == <<>>

Resp(status, flash) ==
  [status |-> status, flash |-> flash, post |-> {}, related |-> <<>>,
   posts |-> <<>>, cat_blocks |-> <<>>]

IdleRequest == [stage |-> "idle", user |-> {}, who |-> NoUser,
                oldp |-> <<>>, newp |-> <<>>]

IdleLocal == [found |-> FALSE, row |-> {}]

Init ==
  /\ use_postgres \in BOOLEAN
  /\ tables = {}
  /\ users = {}
  /\ posts = {}
  /\ post_seq = 0
  /\ session = [c \in Clients |-> NoUser]
  /\ pc = [w \in Workers |-> "down"]
  /\ local = [w \in Workers |-> IdleLocal]
  /\ resp = Resp("none", "")
  /\ inflight = [c \in Clients |-> IdleRequest]

(***************************************************************************)
(* The database: statements of init_db.                                    *)
(***************************************************************************)
\* CREATE TABLE IF NOT EXISTS <name>
CreateTableIfNotExists(ts, name) == ts \cup {name}

\* a row of users; id and created_at are written once and never read
UserRow(username, pwhash) ==
  [username |-> username, password_hash |-> pwhash]

\* SELECT * FROM users WHERE username=?   (at most one row: username is UNIQUE)
SelectUser(us, username) == {r \in us : r.username = username}

\* would INSERT INTO users break UNIQUE(username)
UniqueViolation(us, row) == \E r \in us : r.username = row.username

\* INSERT INTO users ... ON CONFLICT (username) DO NOTHING
InsertUserOnConflictDoNothing(us, row) ==
  IF UniqueViolation(us, row) THEN us ELSE us \cup {row}

\* faulty variant of the SQLite seed: the row is written without the SELECT
SeedAdminSqliteReplace(us, row) ==
  {r \in us : r.username # row.username} \cup {row}

\* SQLite: SELECT 1 FROM users WHERE username='admin', INSERT when absent
SeedAdminSqlite(us, row) ==
  IF SelectUser(us, AdminName) # {} THEN us ELSE us \cup {row}

\* the default admin's row, as both branches of init_db build it
DefaultAdminRow(salt) ==
  UserRow(AdminName, GeneratePasswordHash(DefaultPass, salt))

Serving == \E w \in Workers : pc[w] = "done"

(***************************************************************************)
(* init_db run by one process at a time: a process start.                  *)
(***************************************************************************)
NoInitRunning == \A w \in Workers : pc[w] \in {"down", "done", "error"}

Startup(w, salt) ==
  /\ NoInitRunning
  /\ LET row == DefaultAdminRow(salt)
     IN users' = IF use_postgres
                 THEN InsertUserOnConflictDoNothing(users, row)
                 ELSE SeedAdminSqlite(users, row)
  /\ tables' = CreateTableIfNotExists(
                 CreateTableIfNotExists(tables, "users"), "posts")
  /\ pc' = [pc EXCEPT ![w] = "done"]
  /\ UNCHANGED <<use_postgres, posts, post_seq, session, local, resp, inflight>>

(***************************************************************************)
(* init_db statement by statement, for processes that start in parallel.   *)
(* A statement is atomic; SQLite's INSERT leaves the row uncommitted, and  *)
(* invisible to the other connections, until commit.                       *)
(***************************************************************************)
\* a connection with an uncommitted INSERT holds SQLite's write lock
WriteLocked == \E w \in Workers : local[w].row # {}

InitBegin(w) ==
  /\ pc[w] = "down"
  /\ pc' = [pc EXCEPT ![w] = "create_users"]
  /\ local' = [local EXCEPT ![w] = IdleLocal]
  /\ UNCHANGED <<use_postgres, tables, users, posts, post_seq, session, resp,
                 inflight>>

InitCreateUsers(w) ==
  /\ pc[w] = "create_users"
  /\ tables' = CreateTableIfNotExists(tables, "users")
  /\ pc' = [pc EXCEPT ![w] = "create_posts"]
  /\ UNCHANGED <<use_postgres, users, posts, post_seq, session, local, resp,
                 inflight>>

InitCreatePosts(w) ==
  /\ pc[w] = "create_posts"
  /\ tables' = CreateTableIfNotExists(tables, "posts")
  /\ pc' = [pc EXCEPT ![w] = IF use_postgres THEN "seed" ELSE "select"]
  /\ UNCHANGED <<use_postgres, users, posts, post_seq, session, local, resp,
                 inflight>>

\* Postgres: INSERT ... ON CONFLICT DO NOTHING, then commit and close
InitSeedPostgres(w) ==
  /\ pc[w] = "seed"
  /\ \E salt \in Salts :
       users' = InsertUserOnConflictDoNothing(users, DefaultAdminRow(salt))
  /\ pc' = [pc EXCEPT ![w] = "done"]
  /\ UNCHANGED <<use_postgres, tables, posts, post_seq, session, local, resp,
                 inflight>>

\* SQLite: cur = SELECT 1 FROM users WHERE username='admin'
InitSelect(w) ==
  /\ pc[w] = "select"
  /\ local' = [local EXCEPT ![w].found = SelectUser(users, AdminName) # {}]
  /\ pc' = [pc EXCEPT ![w] = "insert"]
  /\ UNCHANGED <<use_postgres, tables, users, posts, post_seq, session, resp,
                 inflight>>

\* SQLite: if not cur.fetchone(): INSERT INTO users ...
InitInsert(w) ==
  /\ pc[w] = "insert"
  /\ IF local[w].found
     THEN /\ pc' = [pc EXCEPT ![w] = "commit"]
          /\ UNCHANGED local
     ELSE /\ ~WriteLocked
          /\ \E salt \in Salts :
               LET row == DefaultAdminRow(salt)
               IN IF UniqueViolation(users, row)
                  THEN \* sqlite3.IntegrityError leaves init_db and the import
                       /\ pc' = [pc EXCEPT ![w] = "error"]
                       /\ UNCHANGED local
                  ELSE /\ pc' = [pc EXCEPT ![w] = "commit"]
                       /\ local' = [local EXCEPT ![w].row = {row}]
  /\ UNCHANGED <<use_postgres, tables, users, posts, post_seq, session, resp,
                 inflight>>

\* SQLite: db.commit(); db.close()
InitCommit(w) ==
  /\ pc[w] = "commit"
  /\ users' = users \cup local[w].row
  /\ local' = [local EXCEPT ![w] = IdleLocal]
  /\ pc' = [pc EXCEPT ![w] = "done"]
  /\ UNCHANGED <<use_postgres, tables, posts, post_seq, session, resp,
                 inflight>>

\* a worker process ends (or is ended after its failed start) and may start again
WorkerExit(w) ==
  /\ pc[w] \in {"done", "error"}
  /\ pc' = [pc EXCEPT ![w] = "down"]
  /\ UNCHANGED <<use_postgres, tables, users, posts, post_seq, session, local,
                 resp, inflight>>

NextInit ==
  \E w \in Workers :
    \/ InitBegin(w)
    \/ InitCreateUsers(w)
    \/ InitCreatePosts(w)
    \/ InitSeedPostgres(w)
    \/ InitSelect(w)
    \/ InitInsert(w)
    \/ InitCommit(w)
    \/ WorkerExit(w)

SpecInit == Init /\ [][NextInit]_vars

(***************************************************************************)
(* Requests.  A request is served by a process whose init_db has returned. *)
(***************************************************************************)
\* faulty variant: the gate lets every client in
IsLoggedInAlways(c) == TRUE

\* is_logged_in(): bool(session.get("user"))
IsLoggedIn(c) == session[c] # NoUser

\* ORDER BY created_at DESC: every order of the rows the engine may return
\* (rows with equal created_at come in any order)
RECURSIVE OrderByCreatedAtDesc(_)
OrderByCreatedAtDesc(rows) ==
  IF rows = {} THEN {<<>>}
  ELSE UNION {
         {<<r>> \o q : q \in OrderByCreatedAtDesc(rows \ {r})} :
           r \in {x \in rows : \A y \in rows : y.created_at <= x.created_at} }

\* faulty variant: LIMIT lets one row more through
LimitOffByOne(q, n) == SubSeq(q, 1, IF Len(q) < n + 1 THEN Len(q) ELSE n + 1)

\* LIMIT n
Limit(q, n) == SubSeq(q, 1, IF Len(q) < n THEN Len(q) ELSE n)

\* faulty variant: the password is not verified
AuthenticateAnyPassword(us, username, password) ==
  SelectUser(us, Strip(username))

\* admin_login, POST: the user row the credentials authenticate, if any
Authenticate(us, username, password) ==
  {r \in SelectUser(us, Strip(username)) :
     CheckPasswordHash(r.password_hash, Strip(password))}

\* POST /admin/login
AdminLogin(c, username, password) ==
  /\ Serving
  /\ IF Authenticate(users, username, password) # {}
     THEN /\ session' = [session EXCEPT ![c] = Strip(username)]
          /\ resp' = Resp("redirect_admin", "login_ok")
     ELSE /\ session' = session
          /\ resp' = Resp("login_page", "invalid_credentials")
  /\ UNCHANGED <<use_postgres, tables, users, posts, post_seq, pc, local,
                 inflight>>

\* GET /admin/logout
AdminLogout(c) ==
  /\ Serving
  /\ session' = [session EXCEPT ![c] = NoUser]
  /\ resp' = Resp("redirect_index", "logged_out")
  /\ UNCHANGED <<use_postgres, tables, users, posts, post_seq, pc, local,
                 inflight>>

RedirectLogin ==
  /\ resp' = Resp("redirect_login", "")
  /\ UNCHANGED <<use_postgres, tables, users, posts, post_seq, session, pc,
                 local, inflight>>

\* GET /admin
AdminGet(c) ==
  /\ Serving
  /\ IF ~IsLoggedIn(c)
     THEN RedirectLogin
     ELSE /\ resp' = Resp("admin_page", "")
          /\ UNCHANGED <<use_postgres, tables, users, posts, post_seq,
                         session, pc, local, inflight>>

\* the form of a create submission after the handler's strip() calls
StripForm(form) ==
  [title |-> Strip(form.title), category |-> Strip(form.category),
   summary |-> Strip(form.summary), content |-> Strip(form.content),
   official_link |-> Strip(form.official_link),
   form_link |-> Strip(form.form_link)]

\* faulty variant: the category is not checked
CreateRejectsNoCategory(f) ==
  f.title = <<>> \/ f.summary = <<>> \/ f.content = <<>>

\* not title or not summary or not content or category not in keys
CreateRejects(f) ==
  \/ f.title = <<>>
  \/ f.summary = <<>>
  \/ f.content = <<>>
  \/ f.category \notin CategoryKeys

\* faulty variant: the summary column receives the content
PostRowSwapped(id, f, now) ==
  [id |-> id, title |-> f.title, category |-> f.category,
   summary |-> f.content, content |-> f.content,
   official_link |-> f.official_link, form_link |-> f.form_link,
   created_at |-> now, updated_at |-> now]

\* the row INSERT INTO posts(...) writes
PostRow(id, f, now) ==
  [id |-> id, title |-> f.title, category |-> f.category,
   summary |-> f.summary, content |-> f.content,
   official_link |-> f.official_link, form_link |-> f.form_link,
   created_at |-> now, updated_at |-> now]

\* POST /admin, action=create; now is what datetime.now() returns
AdminCreate(c, form, now) ==
  /\ Serving
  /\ IF ~IsLoggedIn(c)
     THEN RedirectLogin
     ELSE LET f == StripForm(form)
          IN IF CreateRejects(f)
             THEN /\ resp' = Resp("admin_page", "create_required")
                  /\ UNCHANGED <<use_postgres, tables, users, posts, post_seq,
                                 session, pc, local, inflight>>
             ELSE /\ post_seq < MaxPosts
                  /\ posts' = posts \cup {PostRow(post_seq + 1, f, now)}
                  /\ post_seq' = post_seq + 1
                  /\ resp' = Resp("admin_page", "created")
                  /\ UNCHANGED <<use_postgres, tables, users, session, pc,
                                 local, inflight>>

\* DELETE FROM posts WHERE id=<pid>, pid the text of the form field
DeletePost(rows, pid) ==
  IF IsIntegerText(pid)
  THEN {r \in rows : r.id # ParseInt(pid)}
  ELSE rows

\* Postgres refuses text that is not an integer for the integer column id
\* (psycopg2.DataError); SQLite compares it and finds no row
DeleteRaises(pid) == use_postgres /\ ~IsIntegerText(pid)

\* POST /admin, action=delete
AdminDelete(c, pid) ==
  /\ Serving
  /\ IF ~IsLoggedIn(c)
     THEN RedirectLogin
     ELSE IF pid = <<>>
     THEN /\ resp' = Resp("admin_page", "")
          /\ UNCHANGED <<use_postgres, tables, users, posts, post_seq,
                         session, pc, local, inflight>>
     ELSE IF DeleteRaises(pid)
     THEN /\ resp' = Resp("server_error", "")
          /\ UNCHANGED <<use_postgres, tables, users, posts, post_seq,
                         session, pc, local, inflight>>
     ELSE /\ posts' = DeletePost(posts, pid)
          /\ resp' = Resp("admin_page", "deleted")
          /\ UNCHANGED <<use_postgres, tables, users, post_seq, session, pc,
                         local, inflight>>

\* faulty variant: the old password is not verified
PasswordOutcomeNoCheck(us, who, oldp, newp) ==
  IF Len(newp) < MinPasswordLen THEN "too_short" ELSE "ok"

\* update_password up to its UPDATE: the flash it ends with, or "ok"
PasswordOutcome(us, who, oldp, newp) ==
  IF Len(newp) < MinPasswordLen THEN "too_short"
  ELSE IF \E r \in SelectUser(us, who) : CheckPasswordHash(r.password_hash, oldp)
       THEN "ok"
       ELSE "wrong_old"

\* UPDATE users SET password_hash=<pwhash> WHERE username=<who>
UpdatePasswordHash(us, who, pwhash) ==
  {IF r.username = who THEN [r EXCEPT !.password_hash = pwhash] ELSE r :
     r \in us}

\* POST /admin, action=update_password
AdminUpdatePassword(c, oldp, newp) ==
  /\ Serving
  /\ IF ~IsLoggedIn(c)
     THEN RedirectLogin
     ELSE LET outcome == PasswordOutcome(users, session[c], oldp, newp)
          IN /\ IF outcome = "ok"
                THEN /\ \E salt \in Salts :
                          users' = UpdatePasswordHash(
                                     users, session[c],
                                     GeneratePasswordHash(newp, salt))
                     /\ resp' = Resp("admin_page", "password_updated")
                ELSE /\ users' = users
                     /\ resp' = Resp("admin_page", outcome)
             /\ UNCHANGED <<use_postgres, tables, posts, post_seq, session,
                            pc, local, inflight>>

\* SELECT * FROM posts WHERE id=<post_id>
SelectPost(rows, id) == {r \in rows : r.id = id}

\* GET /post/<int:post_id>
Post(id) ==
  /\ Serving
  /\ LET p == SelectPost(posts, id)
     IN IF p = {}
        THEN resp' = Resp("not_found", "")
        ELSE \E q \in OrderByCreatedAtDesc(
                        {r \in posts : /\ r.id # id
                                       /\ \E x \in p : r.category = x.category}) :
               resp' = [Resp("post_page", "") EXCEPT
                          !.post = p, !.related = Limit(q, RelatedLimit)]
  /\ UNCHANGED <<use_postgres, tables, users, posts, post_seq, session, pc,
                 local, inflight>>

(***************************************************************************)
(* The inputs the requests are tried with.                                 *)
(***************************************************************************)
Sp == <<" ">>

Form(title, category, summary, content, official_link, form_link) ==
  [title |-> title, category |-> category, summary |-> summary,
   content |-> content, official_link |-> official_link,
   form_link |-> form_link]

PlainForm == Form(<<"t">>, Jobs, <<"s">>, <<"c">>, <<"u">>, <<"f">>)

SampleForms ==
  { PlainForm,
    \* values with whitespace around them
    Form(Sp \o <<"p">> \o Sp, Sp \o Jobs, <<"s">> \o Sp, Sp \o <<"c">>,
         Sp \o <<"u">>, <<"f">> \o Sp),
    \* another category, no links
    Form(<<"t">>, Results, <<"s">>, <<"c">>, <<>>, <<>>),
    \* a required field missing or blank
    [PlainForm EXCEPT !.title = <<>>],
    [PlainForm EXCEPT !.title = Sp],
    [PlainForm EXCEPT !.summary = <<>>],
    [PlainForm EXCEPT !.content = Sp \o Sp],
    \* a category outside the fixed set
    [PlainForm EXCEPT !.category = <<"x">>],
    [PlainForm EXCEPT !.category = <<>>] }

\* post_id fields: none, the ids in use and one past them, a large id, no number
PostIdTexts ==
  {<<>>, <<"x">>, <<"4", "2">>} \cup {IntText(i) : i \in 1..(MaxPosts + 1)}

PostIds == 0..(MaxPosts + 1)

LongPass == Rep("a", MinPasswordLen)
ShortPass == Rep("a", MinPasswordLen - 1)
\* MinPasswordLen characters, the last one a space
SpacedPass == ShortPass \o Sp

LoginNames == {AdminName, Sp \o AdminName \o Sp, <<"b", "o", "b">>}
LoginPasswords == {DefaultPass, DefaultPass \o Sp, LongPass, SpacedPass}
OldPasswords == {DefaultPass, LongPass, SpacedPass}
NewPasswords == {DefaultPass, LongPass, ShortPass, SpacedPass}

(***************************************************************************)
(* The site with its requests served one at a time and its processes       *)
(* started one at a time: every request, one post form.                    *)
(***************************************************************************)
Next ==
  \/ \E w \in Workers, salt \in Salts : Startup(w, salt)
  \/ \E c \in Clients, u \in LoginNames, p \in {DefaultPass, LongPass} :
       AdminLogin(c, u, p)
  \/ \E c \in Clients : AdminLogout(c)
  \/ \E c \in Clients : AdminGet(c)
  \/ \E c \in Clients : AdminCreate(c, PlainForm, Now)
  \/ \E c \in Clients, pid \in PostIdTexts : AdminDelete(c, pid)
  \/ \E c \in Clients, oldp \in {DefaultPass, LongPass},
        newp \in {LongPass, ShortPass} :
       AdminUpdatePassword(c, oldp, newp)
  \/ \E id \in PostIds : Post(id)

Spec == Init /\ [][Next]_vars

(***************************************************************************)
(* The same site with every post form, one process and the default         *)
(* password.                                                               *)
(***************************************************************************)
NextPosts ==
  \/ Startup("w1", "s1")
  \/ \E c \in Clients : AdminLogin(c, AdminName, DefaultPass)
  \/ \E c \in Clients : AdminLogout(c)
  \/ \E c \in Clients, form \in SampleForms : AdminCreate(c, form, Now)
  \/ \E c \in Clients, pid \in PostIdTexts : AdminDelete(c, pid)
  \/ \E id \in PostIds : Post(id)

SpecPosts == Init /\ [][NextPosts]_vars

(***************************************************************************)
(* The admin account alone: starts, logins, logouts and password changes.  *)
(***************************************************************************)
NextLogin ==
  \/ \E w \in Workers, salt \in Salts : Startup(w, salt)
  \/ \E c \in Clients, u \in LoginNames, p \in LoginPasswords :
       AdminLogin(c, u, p)
  \/ \E c \in Clients : AdminLogout(c)
  \/ \E c \in Clients : AdminGet(c)
  \/ \E c \in Clients, oldp \in OldPasswords, newp \in NewPasswords :
       AdminUpdatePassword(c, oldp, newp)

SpecLogin == Init /\ [][NextLogin]_vars

(***************************************************************************)
(* update_password statement by statement, for requests served in          *)
(* parallel: the SELECT and the check, then the UPDATE and its commit.     *)
(***************************************************************************)
PasswordBegin(c, oldp, newp) ==
  /\ Serving
  /\ inflight[c].stage = "idle"
  /\ IF ~IsLoggedIn(c)
     THEN RedirectLogin
     ELSE LET outcome == PasswordOutcome(users, session[c], oldp, newp)
          IN /\ IF outcome = "ok"
                THEN /\ inflight' =
                          [inflight EXCEPT ![c] =
                             [stage |-> "update",
                              user |-> SelectUser(users, session[c]),
                              who |-> session[c], oldp |-> oldp,
                              newp |-> newp]]
                     /\ resp' = resp
                ELSE /\ inflight' = inflight
                     /\ resp' = Resp("admin_page", outcome)
             /\ UNCHANGED <<use_postgres, tables, users, posts, post_seq,
                            session, pc, local>>

PasswordFinish(c, salt) ==
  /\ inflight[c].stage = "update"
  /\ users' = UpdatePasswordHash(users, inflight[c].who,
                                 GeneratePasswordHash(inflight[c].newp, salt))
  /\ resp' = Resp("admin_page", "password_updated")
  /\ inflight' = [inflight EXCEPT ![c] = IdleRequest]
  /\ UNCHANGED <<use_postgres, tables, posts, post_seq, session, pc, local>>

NextPassword ==
  \/ \E salt \in Salts : Startup("w1", salt)
  \/ \E c \in Clients, p \in {DefaultPass, LongPass} :
       AdminLogin(c, AdminName, p)
  \/ \E c \in Clients : AdminLogout(c)
  \/ \E c \in Clients, oldp \in OldPasswords, newp \in NewPasswords :
       PasswordBegin(c, oldp, newp)
  \/ \E c \in Clients, salt \in Salts : PasswordFinish(c, salt)

SpecPassword == Init /\ [][NextPassword]_vars

(***************************************************************************)
(* GET / applied to posts tables of up to MaxDigestRows rows.              *)
(***************************************************************************)
\* SELECT * FROM posts WHERE category=<key> ORDER BY created_at DESC LIMIT 4
SelectBlock(rows, key) ==
  {Limit(q, BlockLimit) :
     q \in OrderByCreatedAtDesc({r \in rows : r.category = key})}

\* cat_blocks after the loop has run over CATEGORIES[1..i], in insertion order
RECURSIVE CatBlocks(_, _)
CatBlocks(rows, i) ==
  IF i = 0 THEN {<<>>}
  ELSE {Append(b, [key |-> CATEGORIES[i].key, label |-> CATEGORIES[i].label,
                   posts |-> cat_posts]) :
          b \in CatBlocks(rows, i - 1),
          cat_posts \in SelectBlock(rows, CATEGORIES[i].key)}

\* SELECT * FROM posts ORDER BY created_at DESC LIMIT 12
SelectLatest(rows) == {Limit(q, HomeLimit) : q \in OrderByCreatedAtDesc(rows)}

\* GET /
Index ==
  /\ Serving
  /\ \E latest \in SelectLatest(posts),
        blocks \in CatBlocks(posts, Len(CATEGORIES)) :
       resp' = [Resp("index_page", "") EXCEPT
                  !.posts = latest, !.cat_blocks = blocks]
  /\ UNCHANGED <<use_postgres, tables, users, posts, post_seq, session, pc,
                 local, inflight>>

\* a table of n rows: the categories repeat with period cp, and the rows
\* tie and tie + 1 (when tie > 0) were created at the same time
DigestTable(n, cp, tie) ==
  {PostRow(i, [PlainForm EXCEPT !.category = CATEGORIES[((i - 1) % cp) + 1].key],
           IF tie > 0 /\ i > tie THEN i - 1 ELSE i) : i \in 1..n}

DigestTables ==
  {DigestTable(n, cp, tie) :
     n \in 0..MaxDigestRows, cp \in {1, 2, Len(CATEGORIES)},
     tie \in 0..MaxDigestRows}

InitDigest ==
  /\ use_postgres \in BOOLEAN
  /\ tables = {"users", "posts"}
  /\ users = {DefaultAdminRow("s1")}
  /\ posts \in DigestTables
  /\ post_seq = Cardinality(posts)
  /\ session = [c \in Clients |-> NoUser]
  /\ pc = [w \in Workers |-> "done"]
  /\ local = [w \in Workers |-> IdleLocal]
  /\ resp = Resp("none", "")
  /\ inflight = [c \in Clients |-> IdleRequest]

NextDigest == Index

SpecDigest == InitDigest /\ [][NextDigest]_vars

(***************************************************************************)
(* Properties of post creation and deletion (SpecPosts).                   *)
(***************************************************************************)
\* the row of rows whose six form columns are the values f
RowsWith(rows, f) ==
  {r \in rows : /\ r.title = f.title
                /\ r.category = f.category
                /\ r.summary = f.summary
                /\ r.content = f.content
                /\ r.official_link = f.official_link
                /\ r.form_link = f.form_link}

\* GET /post/<id> of a stored row returns that row
RetrievedById ==
  \A id \in PostIds :
    Post(id) =>
      \A r \in posts : r.id = id =>
        resp'.status = "post_page" /\ resp'.post = {r}

\* C1 as stated: a create submission by a logged-in client whose title,
\* summary and content are non-empty and whose category is a fixed key adds
\* a row that holds the submitted values verbatim, and GET /post/<id>
\* returns it.
C1_CreatedVerbatim ==
  [][ /\ \A c \in Clients, form \in SampleForms :
           ( /\ AdminCreate(c, form, Now)
             /\ session[c] # NoUser
             /\ form.title # <<>>
             /\ form.summary # <<>>
             /\ form.content # <<>>
             /\ form.category \in CategoryKeys )
           => \E r \in RowsWith(posts', form) :
                r.id \notin {x.id : x \in posts} /\ posts' = posts \cup {r}
      /\ RetrievedById ]_vars

\* C1, amended: a create submission by a logged-in client whose title,
\* summary and content are non-empty after strip() and whose stripped
\* category is a fixed key adds one row that holds the stripped values, and
\* GET /post/<id> returns it.
C1_CreatedStripped ==
  [][ /\ \A c \in Clients, form \in SampleForms :
           ( /\ AdminCreate(c, form, Now)
             /\ session[c] # NoUser
             /\ Strip(form.title) # <<>>
             /\ Strip(form.summary) # <<>>
             /\ Strip(form.content) # <<>>
             /\ Strip(form.category) \in CategoryKeys )
           => \E r \in RowsWith(posts',
                                Form(Strip(form.title), Strip(form.category),
                                     Strip(form.summary), Strip(form.content),
                                     Strip(form.official_link),
                                     Strip(form.form_link))) :
                r.id \notin {x.id : x \in posts} /\ posts' = posts \cup {r}
      /\ RetrievedById ]_vars

\* the post created from the form with whitespace around its values is shown
C1_Witness ==
  /\ resp.status = "post_page"
  /\ \E r \in resp.post :
       r.title = <<"p">> /\ r.category = Jobs /\ r.official_link = <<"u">>

ValidStored ==
  \A r \in posts :
    /\ r.category \in CategoryKeys
    /\ r.title # <<>>
    /\ r.summary # <<>>
    /\ r.content # <<>>

\* C2 as stated: a create submission (by a logged-in client) with an empty
\* title, summary or content, or a category that is no fixed key, leaves
\* posts unchanged and flashes the validation error; every stored post is
\* valid.
C2_RejectedAsSubmitted ==
  /\ [][ \A c \in Clients, form \in SampleForms :
           ( /\ AdminCreate(c, form, Now)
             /\ session[c] # NoUser
             /\ \/ form.title = <<>>
                \/ form.summary = <<>>
                \/ form.content = <<>>
                \/ form.category \notin CategoryKeys )
           => posts' = posts /\ resp'.flash = "create_required" ]_vars
  /\ []ValidStored

\* C2, amended: a create submission by a logged-in client whose title,
\* summary or content is empty after strip(), or whose stripped category is
\* no fixed key, leaves posts unchanged and flashes the validation error;
\* every stored post has a fixed category and non-empty title, summary and
\* content.
C2_RejectedAfterStrip ==
  /\ [][ \A c \in Clients, form \in SampleForms :
           ( /\ AdminCreate(c, form, Now)
             /\ session[c] # NoUser
             /\ \/ Strip(form.title) = <<>>
                \/ Strip(form.summary) = <<>>
                \/ Strip(form.content) = <<>>
                \/ Strip(form.category) \notin CategoryKeys )
           => posts' = posts /\ resp'.flash = "create_required" ]_vars
  /\ []ValidStored

\* a submission was rejected while a post is stored
C2_Witness ==
  /\ resp.flash = "create_required"
  /\ posts # {}
  /\ \E c \in Clients : session[c] # NoUser

\* the stored posts a post_id field names
Matching(rows, pid) == {r \in rows : IntText(r.id) = pid}

\* C8: a delete by a logged-in client with a post_id that matches no stored
\* post completes without an error and leaves posts unchanged; with one
\* that matches a stored post it removes exactly that row.
C8_DeleteById ==
  [][ \A c \in Clients, pid \in PostIdTexts :
        (AdminDelete(c, pid) /\ session[c] # NoUser)
        => IF Matching(posts, pid) = {}
           THEN resp'.status = "admin_page" /\ posts' = posts
           ELSE posts' = posts \ Matching(posts, pid) ]_vars

(***************************************************************************)
(* Properties of authentication and of the users table (Spec).             *)
(***************************************************************************)
LoginFailed == Resp("login_page", "invalid_credentials")

\* C3 as stated: a login whose username and password match a stored user
\* establishes a session identified by that username, and /admin is then
\* served; any other login leaves no session and shows the login page with
\* the one failure message.
C3_LoginAsSubmitted ==
  [][ \A c \in Clients, u \in LoginNames, p \in LoginPasswords :
        AdminLogin(c, u, p) =>
          IF \E r \in users :
               r.username = u /\ CheckPasswordHash(r.password_hash, p)
          THEN session'[c] = u /\ resp'.status = "redirect_admin"
          ELSE session'[c] = NoUser /\ resp' = LoginFailed ]_vars

\* C3, amended: a login whose stripped username and stripped password match
\* a stored user establishes a session identified by the stripped username,
\* and /admin is then served; any other login (unknown username or wrong
\* password alike) leaves every session as it was and shows the login page
\* with the one failure message.
C3_LoginStripped ==
  [][ \A c \in Clients, u \in LoginNames, p \in LoginPasswords :
        AdminLogin(c, u, p) =>
          IF \E r \in users :
               /\ r.username = Strip(u)
               /\ CheckPasswordHash(r.password_hash, Strip(p))
          THEN /\ session' = [session EXCEPT ![c] = Strip(u)]
               /\ session'[c] # NoUser
               /\ resp'.status = "redirect_admin"
          ELSE session' = session /\ resp' = LoginFailed ]_vars

\* a login has failed while a client holds a session
C3_Witness ==
  /\ resp = LoginFailed
  /\ \E c \in Clients : session[c] = AdminName

\* C4: update_password by a logged-in user leaves the hash unchanged when
\* the new password has fewer than 8 characters; when the old password
\* verifies and the new one has at least 8 characters, the hash is replaced,
\* a login with the new password then authenticates and one with the old
\* password (when it differs from the new one) does not.
C4_PasswordChanged ==
  [][ \A c \in Clients, oldp \in OldPasswords, newp \in NewPasswords :
        (AdminUpdatePassword(c, oldp, newp) /\ session[c] # NoUser) =>
          /\ Len(newp) < MinPasswordLen => users' = users
          /\ ( /\ Len(newp) >= MinPasswordLen
               /\ \E r \in SelectUser(users, session[c]) :
                    CheckPasswordHash(r.password_hash, oldp) )
             => /\ users' # users
                /\ Authenticate(users', session[c], newp) # {}
                /\ oldp # newp => Authenticate(users', session[c], oldp) = {}
    ]_vars

\* C5: a request to /admin by a client without a session is answered with
\* the redirect to the login route and changes neither posts nor users;
\* posts change only by a create or delete of a client that holds a session.
C5_AdminGated ==
  [][ /\ \A c \in Clients :
           ( /\ session[c] = NoUser
             /\ \/ AdminGet(c)
                \/ AdminCreate(c, PlainForm, Now)
                \/ \E pid \in PostIdTexts : AdminDelete(c, pid)
                \/ \E oldp \in {DefaultPass, LongPass},
                      newp \in {LongPass, ShortPass} :
                     AdminUpdatePassword(c, oldp, newp) )
           => /\ resp' = Resp("redirect_login", "")
              /\ posts' = posts
              /\ users' = users
      /\ posts' # posts =>
           /\ \E c \in Clients : session[c] # NoUser
           /\ resp'.flash \in {"created", "deleted"} ]_vars

\* after a logout nobody holds a session, posts exist, and a request to
\* /admin has been redirected
C5_Witness ==
  /\ resp = Resp("redirect_login", "")
  /\ posts # {}
  /\ \A c \in Clients : session[c] = NoUser

\* C7: once a process has started, users holds exactly one row, and its
\* username is admin; a later start adds no row and leaves the hash alone.
C7_OneAdmin ==
  /\ [](Serving =>
          /\ Cardinality(users) = 1
          /\ \A r \in users : r.username = AdminName)
  /\ [][ \A w \in Workers, salt \in Salts :
           (Startup(w, salt) /\ users # {}) => users' = users ]_vars

\* both processes have started and the password is no longer the default
C7_Witness ==
  /\ \A w \in Workers : pc[w] = "done"
  /\ \E r \in users : ~CheckPasswordHash(r.password_hash, DefaultPass)
  /\ posts # {}

(***************************************************************************)
(* Processes that start in parallel (SpecInit).                            *)
(***************************************************************************)
\* C6: whatever the interleaving of init_db in the worker processes, on
\* either backend, no worker's init_db fails, and when all have finished
\* users holds exactly one row, the admin's.
C6_ConcurrentInitSafe ==
  /\ \A w \in Workers : pc[w] # "error"
  /\ (\A w \in Workers : pc[w] = "done") =>
       /\ Cardinality(users) = 1
       /\ \A r \in users : r.username = AdminName

(***************************************************************************)
(* The home digest (SpecDigest).                                           *)
(***************************************************************************)
Min(a, b) == IF a < b THEN a ELSE b

\* q lists, newest first and without repetition, the n most recent of rows
\* (or all of them when there are fewer)
LatestOf(q, rows, n) ==
  /\ Len(q) = Min(n, Cardinality(rows))
  /\ \A i \in 1..Len(q) : q[i] \in rows
  /\ \A i, j \in 1..Len(q) : i < j =>
       q[i] # q[j] /\ q[i].created_at >= q[j].created_at
  /\ \A r \in rows :
       (\A i \in 1..Len(q) : q[i] # r) =>
         \A i \in 1..Len(q) : r.created_at <= q[i].created_at

\* C9: GET / returns at most 12 posts overall and, for each of the five
\* categories, a block of at most 4 posts of that category; each list is
\* ordered by created_at, newest first, and holds the most recent posts.
C9_HomeDigest ==
  resp.status = "index_page" =>
    /\ Len(resp.posts) <= 12
    /\ LatestOf(resp.posts, posts, 12)
    /\ {b.key : b \in {resp.cat_blocks[i] : i \in DOMAIN resp.cat_blocks}}
         = CategoryKeys
    /\ Len(resp.cat_blocks) = 5
    /\ \A i \in DOMAIN resp.cat_blocks :
         LET b == resp.cat_blocks[i]
         IN /\ Len(b.posts) <= 4
            /\ \A j \in 1..Len(b.posts) : b.posts[j].category = b.key
            /\ LatestOf(b.posts, {r \in posts : r.category = b.key}, 4)

\* the digest of a table with more than 12 rows, more than 4 of them in one
\* category, where the oldest row listed ties with the newest row left out
C9_Witness ==
  /\ resp.status = "index_page"
  /\ Cardinality(posts) > 12
  /\ \E r \in posts :
       /\ \A i \in 1..Len(resp.posts) : resp.posts[i] # r
       /\ r.created_at = resp.posts[Len(resp.posts)].created_at
  /\ \E i \in DOMAIN resp.cat_blocks :
       /\ Len(resp.cat_blocks[i].posts) = 4
       /\ Cardinality({r \in posts : r.category = resp.cat_blocks[i].key}) > 4

(***************************************************************************)
(* Password changes served in parallel (SpecPassword).                     *)
(***************************************************************************)
\* C10 as stated: a request replaces the stored hash only if its old
\* password verifies against the hash that is stored when it replaces it.
C10_VerifiedAtReplacement ==
  [][ \A c \in Clients, salt \in Salts :
        PasswordFinish(c, salt) =>
          \E r \in SelectUser(users, inflight[c].who) :
            CheckPasswordHash(r.password_hash, inflight[c].oldp) ]_vars

\* C10, amended: a request replaces the stored hash only if its new
\* password has at least 8 characters and its old password verified against
\* the hash the request read, which a request served in parallel may have
\* replaced since (the last write wins); a request whose new password is
\* too short, or whose old password does not verify against the hash it
\* reads, ends with the validation or the auth error and writes nothing.
C10_VerifiedAtRead ==
  [][ /\ \A r \in users, r2 \in users' :
           (r.username = r2.username /\ r.password_hash # r2.password_hash)
           => \E c \in Clients :
                /\ inflight[c].stage = "update"
                /\ inflight'[c].stage = "idle"
                /\ inflight[c].who = r.username
                /\ Len(inflight[c].newp) >= MinPasswordLen
                /\ \E u \in inflight[c].user :
                     CheckPasswordHash(u.password_hash, inflight[c].oldp)
                /\ CheckPasswordHash(r2.password_hash, inflight[c].newp)
      /\ \A c \in Clients, oldp \in OldPasswords, newp \in NewPasswords :
           ( /\ PasswordBegin(c, oldp, newp)
             /\ session[c] # NoUser
             /\ \/ Len(newp) < MinPasswordLen
                \/ \A r \in SelectUser(users, session[c]) :
                     ~CheckPasswordHash(r.password_hash, oldp) )
           => /\ users' = users
              /\ inflight' = inflight
              /\ resp' = Resp("admin_page",
                              IF Len(newp) < MinPasswordLen
                              THEN "too_short" ELSE "wrong_old") ]_vars

\* a request is about to write although the row it read has been replaced
C10_Witness ==
  \E c \in Clients :
    /\ inflight[c].stage = "update"
    /\ \E u \in inflight[c].user : u \notin users

====
